---- MODULE Spec2Model ----
(***************************************************************************)
(* Deployment orchestration of scripts/deploy.py: oracle warm-up, nonce    *)
(* based address prediction, ordered creation of the component graph,     *)
(* post-deploy wiring and the time-delayed ownership handover.             *)
(*                                                                         *)
(* The ledger (brownie's accounts / chain objects) and the deployed        *)
(* contracts (MockAggregator, PrismaCore) are the script's collaborators;  *)
(* their behaviour is modelled from the specification's ledger, oracle     *)
(* and governance boundaries.                                              *)
(***************************************************************************)
EXTENDS Integers, Sequences, FiniteSets, TLC

VARIABLES
    deployer,       \* identity of accounts[0]
    nonce,          \* the ledger's transaction counter of the deployer
    now,            \* chain.time()
    clockAdvances,  \* whether chain.sleep moves the clock
    pc,             \* position of main()
    iter,           \* loop variable i of the warm-up loop
    step,           \* index inside the current phase (setter, plan step, wiring call)
    locals,         \* main()'s address-valued local variables
    nonceRead,      \* main()'s local `nonce`
    current,        \* update_chainlink's local `current`
    feed,           \* storage of the MockAggregator
    contracts,      \* components living on the ledger, in creation order
    core,           \* storage of the administrative root (PrismaCore)
    txlog,          \* the deployer account's transactions, in ledger order
    startRound,     \* the feed's latest round id before warm-up
    calls,          \* the handover calls the root component received, in order
    ticks           \* time units that passed on their own

vars == <<deployer, nonce, now, clockAdvances, pc, iter, step, locals, nonceRead,
          current, feed, contracts, core, txlog, startRound, calls, ticks>>

----------------------------------------------------------------------------
(* Bounds of the model *)

MaxStartNonce == 1
MaxStartRound == 1
MaxStartTime == 1
MaxForeign == 1
MaxTicks == 1
MaxCalls == 4
MaxAdvances == 2

----------------------------------------------------------------------------
(* Constants of the program *)

WEEK == 604800
WarmupIterations == 3
WarmupPrice == 1000
PriceDecimals == 8
WarmupSleep == 10
HandoverSleep == 259201
MinimumDelay == 259200

NoAddr == <<>>

\* address of an externally owned account
AccountAddress(id) == <<id, -1>>

----------------------------------------------------------------------------
(* Ledger boundary *)

\* the address the ledger assigns to a creation sent by `id` with counter `n`
CreateAddress(id, n) == <<id, n>>

\* deployer.get_deployment_address(n)
get_deployment_address(id, n) == CreateAddress(id, n)

\* chain.mine(timestamp=(chain.time() // 604800 + 1) * 604800)
NextWeekStart(t) == ((t \div WEEK) + 1) * WEEK

\* chain.sleep(seconds)
SleepAlways(t, seconds) == t + seconds
Sleep(t, seconds) == IF clockAdvances THEN t + seconds ELSE t

----------------------------------------------------------------------------
(* The deployment plan *)

\* lines 84-100: the variable predicted with offset k (position k + 1)
PredTableSwapped ==
    << "prisma_core", "fee_receiver", "gas_pool", "pricefeed", "factory",
       "liquidation_manager", "st_impl", "tm_impl", "locker", "voter", "prisma",
       "emissions", "treasury", "stability_pool", "debt", "borrower_ops", "boost" >>
PredTable ==
    << "prisma_core", "fee_receiver", "gas_pool", "pricefeed", "factory",
       "liquidation_manager", "tm_impl", "st_impl", "locker", "voter", "prisma",
       "emissions", "treasury", "stability_pool", "debt", "borrower_ops", "boost" >>

C(name, var, args) == [name |-> name, var |-> var, args |-> args]

\* lines 102-145: the creations, in program order, with the address-valued
\* variables each constructor call reads
Plan ==
    << C("PrismaCore", "prisma_core", <<"deployer", "stability_pool">>),
       C("FeeReceiver", "fee_receiver", <<"prisma_core">>),
       C("GasPool", "gas_pool", <<>>),
       C("PriceFeed", "pricefeed", <<"prisma_core", "mock_chainlink", "mock_tellor">>),
       C("Factory", "factory",
         <<"prisma_core", "debt", "stability_pool", "borrower_ops", "st_impl",
           "tm_impl", "liquidation_manager">>),
       C("LiquidationManager", "liquidation_manager", <<"stability_pool", "factory">>),
       C("TroveManager", "tm_impl",
         <<"prisma_core", "gas_pool", "debt", "borrower_ops", "treasury",
           "liquidation_manager">>),
       C("SortedTroves", "st_impl", <<>>),
       C("TokenLocker", "locker", <<"prisma_core", "prisma", "voter">>),
       C("IncentiveVoting", "voter", <<"prisma_core", "locker", "treasury">>),
       C("PrismaToken", "prisma", <<"treasury", "locker">>),
       C("EmissionSchedule", "emissions", <<"prisma_core", "voter", "treasury">>),
       C("PrismaTreasury", "treasury",
         <<"prisma_core", "prisma", "locker", "voter", "emissions", "boost",
           "stability_pool", "deployer">>),
       C("StabilityPool", "stability_pool",
         <<"prisma_core", "debt", "treasury", "factory", "liquidation_manager">>),
       C("DebtToken", "debt",
         <<"stability_pool", "borrower_ops", "prisma_core", "factory", "gas_pool">>),
       C("BorrowerOperations", "borrower_ops", <<"prisma_core", "debt", "factory">>),
       C("BoostCalculator", "boost", <<"prisma_core", "locker">>) >>

\* lines 147-148: the wiring calls on prisma_core
WiringSwapped ==
    << [method |-> "setPriceFeed", arg |-> "fee_receiver"],
       [method |-> "setFeeReceiver", arg |-> "pricefeed"] >>
Wiring ==
    << [method |-> "setPriceFeed", arg |-> "pricefeed"],
       [method |-> "setFeeReceiver", arg |-> "fee_receiver"] >>

\* line 150 and line 153
HelperSpec == C("MultiCollateralHintHelpers", "helper", <<"borrower_ops", "factory">>)
OwnerSpec == C("AdminVoting", "owner", <<"prisma_core", "locker">>)

VarNames ==
    {"deployer", "mock_chainlink", "mock_tellor", "helper", "owner"}
        \cup {PredTable[i] : i \in 1..Len(PredTable)}

----------------------------------------------------------------------------
(* Oracle boundary: the MockAggregator *)

\* storage of a feed that does not exist yet
NoFeed ==
    [price |-> 0, roundId |-> 0, updateTime |-> 0,
     prevPrice |-> 0, prevRoundId |-> 0, prevUpdateTime |-> 0]

\* storage of a freshly created feed whose latest round is (price, roundId, updateTime)
FreshFeed(price, roundId, updateTime) ==
    [NoFeed EXCEPT !.price = price, !.roundId = roundId, !.updateTime = updateTime]

\* mock_chainlink.latestRoundData().dict()
latestRoundData(f) ==
    [answer |-> f.price, roundId |-> f.roundId, updatedAt |-> f.updateTime]

\* price * 10**8, kept as a fixed-point number (10^11 exceeds TLC's 32-bit integers)
ScalePrice(price) == [units |-> price, decimals |-> PriceDecimals]

\* current['roundId'] + 1
NextRoundIdStuck(cur) == cur.roundId
NextRoundId(cur) == cur.roundId + 1

\* lines 52-58: the setter transactions of update_chainlink, in program order,
\* each with the storage field it writes
UcSetters ==
    << [method |-> "setPrevPrice", field |-> "prevPrice"],
       [method |-> "setPrevRoundId", field |-> "prevRoundId"],
       [method |-> "setPrevUpdateTime", field |-> "prevUpdateTime"],
       [method |-> "setUpdateTime", field |-> "updateTime"],
       [method |-> "setPrice", field |-> "price"],
       [method |-> "setLatestRoundId", field |-> "roundId"] >>

\* the argument update_chainlink passes to each setter
SetterArgStale(method, cur, t, price) ==
    CASE method = "setPrevPrice" -> cur.answer
      [] method = "setPrevRoundId" -> cur.roundId
      [] method = "setPrevUpdateTime" -> cur.updatedAt
      [] method = "setUpdateTime" -> cur.updatedAt
      [] method = "setPrice" -> ScalePrice(price)
      [] method = "setLatestRoundId" -> NextRoundId(cur)
SetterArg(method, cur, t, price) ==
    CASE method = "setPrevPrice" -> cur.answer
      [] method = "setPrevRoundId" -> cur.roundId
      [] method = "setPrevUpdateTime" -> cur.updatedAt
      [] method = "setUpdateTime" -> t
      [] method = "setPrice" -> ScalePrice(price)
      [] method = "setLatestRoundId" -> NextRoundId(cur)

----------------------------------------------------------------------------
(* Governance boundary: the handover state machine of the root component *)

NoCore ==
    [owner |-> NoAddr, pending |-> NoAddr, commitTime |-> 0, state |-> "Uncommitted",
     priceFeed |-> NoAddr, feeReceiver |-> NoAddr]

\* commitTransferOwnership(newOwner) at time t: the call's outcome and the storage after it
commitKeepsTimer(c, newOwner, t) ==
    IF c.state \in {"Uncommitted", "Committed"}
    THEN [ok |-> TRUE,
          core |-> [c EXCEPT !.pending = newOwner,
                             !.commitTime = IF c.state = "Committed" THEN @ ELSE t,
                             !.state = "Committed"]]
    ELSE [ok |-> FALSE, core |-> c]
commitTransferOwnership(c, newOwner, t) ==
    IF c.state \in {"Uncommitted", "Committed"}
    THEN [ok |-> TRUE,
          core |-> [c EXCEPT !.pending = newOwner, !.commitTime = t,
                             !.state = "Committed"]]
    ELSE [ok |-> FALSE, core |-> c]

\* acceptTransferOwnership() at time t
acceptNoDelay(c, t) ==
    IF c.state = "Committed"
    THEN [ok |-> TRUE, core |-> [c EXCEPT !.owner = c.pending, !.state = "Accepted"]]
    ELSE [ok |-> FALSE, core |-> c]
acceptRepeatable(c, t) ==
    IF c.state \in {"Committed", "Accepted"} /\ t >= c.commitTime + MinimumDelay
    THEN [ok |-> TRUE, core |-> [c EXCEPT !.owner = c.pending, !.state = "Accepted"]]
    ELSE [ok |-> FALSE, core |-> c]
acceptTransferOwnership(c, t) ==
    IF c.state = "Committed" /\ t >= c.commitTime + MinimumDelay
    THEN [ok |-> TRUE, core |-> [c EXCEPT !.owner = c.pending, !.state = "Accepted"]]
    ELSE [ok |-> FALSE, core |-> c]

\* a handover call that reaches the root component at the current time
HandoverCall(op, arg) ==
    LET r == IF op = "commit"
             THEN commitTransferOwnership(core, arg, now)
             ELSE acceptTransferOwnership(core, now)
    IN  /\ core' = r.core
        /\ calls' = Append(calls, [op |-> op, arg |-> arg, time |-> now, ok |-> r.ok])

----------------------------------------------------------------------------
(* main() *)

Running == pc \notin {"done", "aborted", "handover"}

\* a transaction that fails raises, and main() catches nothing
AfterTxSwallow(ok, nextpc) == nextpc
AfterTxWiringSwallowed(ok, nextpc) ==
    IF ok \/ nextpc = "deploy_helper" THEN nextpc ELSE "aborted"
AfterTx(ok, nextpc) == IF ok THEN nextpc ELSE "aborted"

\* for i in range(3)
LoopNextShort(i) == IF i < WarmupIterations - 1 THEN "update_chainlink" ELSE "deploy_tellor"
LoopNext(i) == IF i < WarmupIterations THEN "update_chainlink" ELSE "deploy_tellor"

TxEntry(origin, kind, name, method, ok, addr, pred) ==
    [origin |-> origin, kind |-> kind, name |-> name, method |-> method, ok |-> ok,
     nonce |-> nonce, addr |-> addr, pred |-> pred]

\* <Contract>.deploy(*args, {'from': deployer}), its result bound to spec.var
Deploy(spec, ok, nextpc) ==
    LET addr == IF ok THEN CreateAddress(deployer, nonce) ELSE NoAddr
        args == [i \in 1..Len(spec.args) |-> locals[spec.args[i]]]
    IN  /\ txlog' = Append(txlog, TxEntry("main", "create", spec.name, "constructor",
                                          ok, addr, locals[spec.var]))
        /\ nonce' = nonce + 1
        /\ contracts' = IF ok
                        THEN Append(contracts,
                                    [name |-> spec.name, addr |-> addr, args |-> args])
                        ELSE contracts
        /\ locals' = IF ok THEN [locals EXCEPT ![spec.var] = addr] ELSE locals
        /\ pc' = AfterTx(ok, nextpc)

\* a state-changing call on a deployed component
Call(name, method, target, ok, nextpc) ==
    /\ txlog' = Append(txlog, TxEntry("main", "call", name, method, ok, target, NoAddr))
    /\ nonce' = nonce + 1
    /\ pc' = AfterTx(ok, nextpc)

\* line 72
Mine ==
    /\ pc = "mine"
    /\ now' = NextWeekStart(now)
    /\ pc' = "deploy_mock"
    /\ UNCHANGED <<deployer, nonce, clockAdvances, iter, step, locals, nonceRead,
                   current, feed, contracts, core, txlog, startRound, calls, ticks>>

\* line 75 (the constructor's initial round is not fixed by the script), line 76
DeployMock ==
    /\ pc = "deploy_mock"
    /\ \E ok \in BOOLEAN, r \in {0, MaxStartRound}, t \in {0, MaxStartTime} :
          /\ Deploy(C("MockAggregator", "mock_chainlink", <<>>), ok, LoopNext(0))
          /\ feed' = IF ok THEN FreshFeed(ScalePrice(r), r, t) ELSE feed
          /\ startRound' = IF ok THEN r ELSE startRound
    /\ iter' = 0
    /\ UNCHANGED <<deployer, now, clockAdvances, step, nonceRead, current, core, calls,
                   ticks>>

\* lines 52-54 and 56-58: the storage after the first n setters of an iteration
\* that read `cur` at time t
RECURSIVE AfterSetters(_, _, _, _)
AfterSetters(f, cur, t, n) ==
    IF n = 0
    THEN f
    ELSE [AfterSetters(f, cur, t, n - 1) EXCEPT ![UcSetters[n].field] =
              SetterArg(UcSetters[n].method, cur, t, WarmupPrice)]

\* lines 50-59: one call of update_chainlink(mock_chainlink, 1000); failAt is the
\* setter transaction the ledger rejects (0: none), which ends the call there
UpdateChainlink ==
    /\ pc = "update_chainlink"
    /\ \E failAt \in 0..Len(UcSetters) :
          LET cur == latestRoundData(feed)
              ok == failAt = 0
              sent == IF ok THEN Len(UcSetters) ELSE failAt
              applied == IF ok THEN Len(UcSetters) ELSE failAt - 1
          IN  /\ current' = cur
              /\ feed' = AfterSetters(feed, cur, now, applied)
              /\ txlog' = txlog \o
                    [i \in 1..sent |->
                        [TxEntry("main", "call", "MockAggregator", UcSetters[i].method,
                                 i # failAt, locals["mock_chainlink"], NoAddr)
                            EXCEPT !.nonce = nonce + (i - 1)]]
              /\ nonce' = nonce + sent
              /\ now' = IF ok THEN Sleep(now, WarmupSleep) ELSE now
              /\ iter' = IF ok THEN iter + 1 ELSE iter
              /\ pc' = AfterTx(ok, LoopNext(iter + 1))
    /\ UNCHANGED <<deployer, clockAdvances, step, locals, nonceRead, contracts, core,
                   startRound, calls, ticks>>

\* line 80
DeployTellor ==
    /\ pc = "deploy_tellor"
    /\ \E ok \in BOOLEAN : Deploy(C("MockTellor", "mock_tellor", <<>>), ok, "read_nonce")
    /\ UNCHANGED <<deployer, now, clockAdvances, iter, step, nonceRead, current, feed,
                   core, startRound, calls, ticks>>

\* line 82
ReadNonceBeforeTellor ==
    /\ pc = "read_nonce"
    /\ nonceRead' = nonce - 1
    /\ pc' = "predict"
    /\ UNCHANGED <<deployer, nonce, now, clockAdvances, iter, step, locals, current,
                   feed, contracts, core, txlog, startRound, calls, ticks>>
ReadNonce ==
    /\ pc = "read_nonce"
    /\ nonceRead' = nonce
    /\ pc' = "predict"
    /\ UNCHANGED <<deployer, nonce, now, clockAdvances, iter, step, locals, current,
                   feed, contracts, core, txlog, startRound, calls, ticks>>

\* the offset lines 84-100 use for variable v
Offset(v) == (CHOOSE k \in 1..Len(PredTable) : PredTable[k] = v) - 1

\* lines 84-100
Predict ==
    /\ pc = "predict"
    /\ locals' = [v \in VarNames |->
                     IF \E k \in 1..Len(PredTable) : PredTable[k] = v
                     THEN get_deployment_address(deployer, nonceRead + Offset(v))
                     ELSE locals[v]]
    /\ step' = 1
    /\ pc' = "create"
    /\ UNCHANGED <<deployer, nonce, now, clockAdvances, iter, nonceRead, current, feed,
                   contracts, core, txlog, startRound, calls, ticks>>

\* what follows creation k: the next creation, and the wiring after the last one
AfterCreateEarlyWiring(k) == IF k < Len(Plan) - 1 THEN "create" ELSE "wire"
AfterCreate(k) == IF k < Len(Plan) THEN "create" ELSE "wire"

\* lines 102-145, one creation per step
Create ==
    /\ pc = "create"
    /\ \E ok \in BOOLEAN :
          /\ Deploy(Plan[step], ok, AfterCreate(step))
          /\ step' = IF ~ok THEN step
                     ELSE IF AfterCreate(step) = "create" THEN step + 1 ELSE 1
          /\ core' = IF ok /\ Plan[step].name = "PrismaCore"
                     THEN [NoCore EXCEPT !.owner = locals["deployer"]]
                     ELSE core
    /\ UNCHANGED <<deployer, now, clockAdvances, iter, nonceRead, current, feed, startRound,
                   calls, ticks>>

\* lines 147-148
Wire ==
    /\ pc = "wire"
    /\ \E ok \in BOOLEAN :
          LET w == Wiring[step]
          IN  /\ Call("PrismaCore", w.method, locals["prisma_core"], ok,
                      IF step < Len(Wiring) THEN "wire" ELSE "deploy_helper")
              /\ core' = IF ~ok THEN core
                         ELSE IF w.method = "setPriceFeed"
                              THEN [core EXCEPT !.priceFeed = locals[w.arg]]
                              ELSE [core EXCEPT !.feeReceiver = locals[w.arg]]
              /\ step' = IF ok /\ step < Len(Wiring) THEN step + 1 ELSE step
    /\ UNCHANGED <<deployer, now, clockAdvances, iter, locals, nonceRead, current, feed,
                   contracts, startRound, calls, ticks>>

\* line 150
DeployHelper ==
    /\ pc = "deploy_helper"
    /\ \E ok \in BOOLEAN : Deploy(HelperSpec, ok, "deploy_owner")
    /\ UNCHANGED <<deployer, now, clockAdvances, iter, step, nonceRead, current, feed,
                   core, startRound, calls, ticks>>

\* line 153
DeployOwner ==
    /\ pc = "deploy_owner"
    /\ \E ok \in BOOLEAN : Deploy(OwnerSpec, ok, "commit")
    /\ UNCHANGED <<deployer, now, clockAdvances, iter, step, nonceRead, current, feed,
                   core, startRound, calls, ticks>>

\* line 154
CommitThenWire ==
    /\ pc = "commit"
    /\ \E mined \in BOOLEAN :
          LET r == commitTransferOwnership(core, locals["owner"], now)
          IN  /\ Call("PrismaCore", "commitTransferOwnership", locals["prisma_core"],
                      mined /\ r.ok, "wire")
              /\ IF mined
                 THEN HandoverCall("commit", locals["owner"])
                 ELSE UNCHANGED <<core, calls>>
    /\ UNCHANGED <<deployer, now, clockAdvances, iter, step, locals, nonceRead, current,
                   feed, contracts, startRound, ticks>>
Commit ==
    /\ pc = "commit"
    /\ \E mined \in BOOLEAN :
          LET r == commitTransferOwnership(core, locals["owner"], now)
          IN  /\ Call("PrismaCore", "commitTransferOwnership", locals["prisma_core"],
                      mined /\ r.ok, "sleep")
              /\ IF mined
                 THEN HandoverCall("commit", locals["owner"])
                 ELSE UNCHANGED <<core, calls>>
    /\ UNCHANGED <<deployer, now, clockAdvances, iter, step, locals, nonceRead, current,
                   feed, contracts, startRound, ticks>>

\* line 155
HandoverWaitShort ==
    /\ pc = "sleep"
    /\ now' = Sleep(now, MinimumDelay - 1)
    /\ pc' = "accept"
    /\ UNCHANGED <<deployer, nonce, clockAdvances, iter, step, locals, nonceRead,
                   current, feed, contracts, core, txlog, startRound, calls, ticks>>
HandoverWait ==
    /\ pc = "sleep"
    /\ now' = Sleep(now, HandoverSleep)
    /\ pc' = "accept"
    /\ UNCHANGED <<deployer, nonce, clockAdvances, iter, step, locals, nonceRead,
                   current, feed, contracts, core, txlog, startRound, calls, ticks>>

\* line 156: AdminVoting forwards the accept to the root component
Accept ==
    /\ pc = "accept"
    /\ \E mined \in BOOLEAN :
          LET r == acceptTransferOwnership(core, now)
          IN  /\ Call("AdminVoting", "acceptTransferOwnership", locals["owner"],
                      mined /\ r.ok, "done")
              /\ IF mined
                 THEN HandoverCall("accept", NoAddr)
                 ELSE UNCHANGED <<core, calls>>
    /\ UNCHANGED <<deployer, now, clockAdvances, iter, step, locals, nonceRead, current,
                   feed, contracts, startRound, ticks>>

----------------------------------------------------------------------------
(* The environment of main() *)

Foreign == {i \in 1..Len(txlog) : txlog[i].origin = "foreign"}

\* a transaction of the deployer account that main() did not submit
ForeignTx ==
    /\ Running
    /\ Cardinality(Foreign) < MaxForeign
    /\ txlog' = Append(txlog, TxEntry("foreign", "transfer", "", "", TRUE, NoAddr, NoAddr))
    /\ nonce' = nonce + 1
    /\ UNCHANGED <<deployer, now, clockAdvances, pc, iter, step, locals, nonceRead,
                   current, feed, contracts, core, startRound, calls, ticks>>

\* the statements that read the clock: lines 72, 56, 154 and 156
ReadsClock ==
    pc \in {"mine", "update_chainlink", "commit", "accept"}

\* time passing on its own; it is observable only by a statement that reads the
\* clock, so it is taken right before one
Tick ==
    /\ ReadsClock
    /\ ticks < MaxTicks
    /\ ticks' = ticks + 1
    /\ now' = now + 1
    /\ UNCHANGED <<deployer, nonce, clockAdvances, pc, iter, step, locals, nonceRead,
                   current, feed, contracts, core, txlog, startRound, calls>>

InitWith(ids) ==
    /\ deployer \in ids
    /\ nonce \in {0, MaxStartNonce}
    /\ now = WEEK - 1
    /\ iter = 0
    /\ step = 1
    /\ locals = [v \in VarNames |->
                    IF v = "deployer" THEN AccountAddress(deployer) ELSE NoAddr]
    /\ nonceRead = 0
    /\ current = latestRoundData(NoFeed)
    /\ feed = NoFeed
    /\ contracts = <<>>
    /\ txlog = <<>>
    /\ startRound = 0
    /\ calls = <<>>
    /\ ticks = 0

\* one run of main() from accounts[0]
Init ==
    /\ InitWith({1})
    /\ clockAdvances = TRUE
    /\ pc = "mine"
    /\ core = NoCore

Next ==
    \/ Mine
    \/ DeployMock
    \/ UpdateChainlink
    \/ DeployTellor
    \/ ReadNonce
    \/ Predict
    \/ Create
    \/ Wire
    \/ DeployHelper
    \/ DeployOwner
    \/ Commit
    \/ HandoverWait
    \/ Accept
    \/ ForeignTx
    \/ Tick

Spec == Init /\ [][Next]_vars

----------------------------------------------------------------------------
(* Runs of main() from different deployer identities *)

Identities == {1, 2}

IdentityInit ==
    /\ InitWith(Identities)
    /\ clockAdvances = TRUE
    /\ pc = "mine"
    /\ core = NoCore

IdentitySpec == IdentityInit /\ [][Next]_vars

----------------------------------------------------------------------------
(* One run of main() on a ledger whose clock chain.sleep cannot move *)

FrozenClockInit ==
    /\ InitWith({1})
    /\ clockAdvances = FALSE
    /\ pc = "mine"
    /\ core = NoCore

FrozenClockSpec == FrozenClockInit /\ [][Next]_vars

----------------------------------------------------------------------------
(* The handover state machine under arbitrary callers and an arbitrary clock *)

Candidates == {CreateAddress(1, 0), CreateAddress(1, 1)}

HInit ==
    /\ InitWith({1})
    /\ clockAdvances = TRUE
    /\ nonce = 0
    /\ pc = "handover"
    /\ core = [NoCore EXCEPT !.owner = AccountAddress(1)]

HCommit ==
    /\ pc = "handover"
    /\ Len(calls) < MaxCalls
    /\ \E newOwner \in Candidates : HandoverCall("commit", newOwner)
    /\ UNCHANGED <<deployer, nonce, now, clockAdvances, pc, iter, step, locals,
                   nonceRead, current, feed, contracts, txlog, startRound, ticks>>

HAccept ==
    /\ pc = "handover"
    /\ Len(calls) < MaxCalls
    /\ HandoverCall("accept", NoAddr)
    /\ UNCHANGED <<deployer, nonce, now, clockAdvances, pc, iter, step, locals,
                   nonceRead, current, feed, contracts, txlog, startRound, ticks>>

HAdvance ==
    /\ pc = "handover"
    /\ ticks < MaxAdvances
    /\ \E d \in {1, MinimumDelay - 1, MinimumDelay} : now' = now + d
    /\ ticks' = ticks + 1
    /\ UNCHANGED <<deployer, nonce, clockAdvances, pc, iter, step, locals, nonceRead,
                   current, feed, contracts, core, txlog, startRound, calls>>

HNext ==
    \/ HCommit
    \/ HAccept
    \/ HAdvance

HandoverSpec == HInit /\ [][HNext]_vars

----------------------------------------------------------------------------
(* Vocabulary of the properties *)

IsMain(e) == e.origin = "main"
IsCreate(e) == IsMain(e) /\ e.kind = "create"

WiringMethods == {Wiring[w].method : w \in 1..Len(Wiring)}
IsWiring(e) ==
    IsMain(e) /\ e.kind = "call" /\ e.name = "PrismaCore" /\ e.method \in WiringMethods

\* positions in the deployer's transaction list
CreateIdx == {i \in 1..Len(txlog) : IsCreate(txlog[i])}
WiringIdx == {i \in 1..Len(txlog) : IsWiring(txlog[i])}

\* main() submits nothing after transaction i
NoMainAfter(i) == \A j \in (i + 1)..Len(txlog) : ~IsMain(txlog[j])

\* the plan step that creates the component called name
PlanNames == {Plan[k].name : k \in 1..Len(Plan)}
PlanStep == [name \in PlanNames |-> CHOOSE k \in 1..Len(Plan) : Plan[k].name = name]

\* a transaction main() did not submit took a counter value after the nonce was
\* read and before transaction i
ForeignSinceRead == {j \in Foreign : txlog[j].nonce >= nonceRead}

\* the component a variable of main() names
NameOfVar(v) ==
    CASE v = "mock_chainlink" -> "MockAggregator"
      [] v = "mock_tellor" -> "MockTellor"
      [] v = "helper" -> HelperSpec.name
      [] v = "owner" -> OwnerSpec.name
      [] OTHER -> Plan[CHOOSE k \in 1..Len(Plan) : Plan[k].var = v].name

Created(name) == \E c \in 1..Len(contracts) : contracts[c].name = name

\* the on-ledger address of what variable v names
ActualAddress(v) ==
    IF v = "deployer"
    THEN AccountAddress(deployer)
    ELSE contracts[CHOOSE c \in 1..Len(contracts) : contracts[c].name = NameOfVar(v)].addr

AllPlannedCreated == \A k \in 1..Len(Plan) : Created(Plan[k].name)

----------------------------------------------------------------------------
(* C1: with no foreign deployer transaction between the nonce read and the    *)
(* creation of plan step k + 1, the address get_deployment_address(n0 + k)    *)
(* stored for that component equals the address its creation is assigned.     *)
PredictedEqualsActual ==
    LET drift == ForeignSinceRead
    IN  \A i \in CreateIdx :
            ( /\ txlog[i].name \in PlanNames
              /\ txlog[i].ok
              /\ \A j \in drift : i < j )
            => LET k == PlanStep[txlog[i].name] - 1
               IN  /\ txlog[i].pred = get_deployment_address(deployer, nonceRead + k)
                   /\ txlog[i].addr = txlog[i].pred

\* the last planned creation matched its prediction although a foreign
\* transaction had shifted the nonce before it was read
PredictedEqualsActualWitness ==
    \E i \in CreateIdx, j \in Foreign :
        /\ j < i
        /\ txlog[j].nonce < nonceRead
        /\ txlog[i].name = "BoostCalculator"
        /\ txlog[i].ok
        /\ txlog[i].addr = get_deployment_address(deployer, nonceRead + 16)

(* C2: once all 17 planned creations have succeeded, every address passed to  *)
(* a constructor equals the on-ledger address of the component it names.      *)
ForwardReferencesResolve ==
    AllPlannedCreated =>
        \A c \in 1..Len(contracts), k \in 1..Len(Plan) :
            contracts[c].name = Plan[k].name =>
                \A a \in 1..Len(Plan[k].args) :
                    contracts[c].args[a] = ActualAddress(Plan[k].args[a])

\* the same, for the runs in which no foreign transaction follows the nonce read
ForwardReferencesResolveWithoutDrift ==
    ForeignSinceRead = {} => ForwardReferencesResolve

(* C3: a creation whose actual address differs from the predicted one is the  *)
(* last transaction main() submits.                                           *)
MismatchAbortsRun ==
    \A i \in CreateIdx :
        (txlog[i].ok /\ txlog[i].pred # NoAddr /\ txlog[i].addr # txlog[i].pred)
            => NoMainAfter(i)

(* C4: a rejected creation is the last transaction main() submits: no later   *)
(* creation, no retry, no wiring call, no handover call; the run has stopped. *)
RejectedCreationStopsRun ==
    \A i \in CreateIdx :
        ~txlog[i].ok =>
            /\ NoMainAfter(i)
            /\ pc = "aborted"
            /\ calls = <<>>

\* the creation of plan step 5 (Factory) was rejected after four creations
RejectedCreationWitness ==
    /\ pc = "aborted"
    /\ Len(txlog) > 0
    /\ IsCreate(txlog[Len(txlog)])
    /\ txlog[Len(txlog)].name = "Factory"
    /\ ~txlog[Len(txlog)].ok
    /\ Created("PriceFeed")

\* the step is an accept() reaching the root component
AcceptCalled == Len(calls') = Len(calls) + 1 /\ calls'[Len(calls')].op = "accept"

(* C5: accept() changes the handover state only from Committed and only at or *)
(* after commitTime + minimumDelay; an earlier accept() fails and changes     *)
(* nothing, and Accepted is never held before commitTime + minimumDelay.      *)
AcceptGatedByDelay ==
    /\ [](core.state = "Accepted" => now >= core.commitTime + MinimumDelay)
    /\ [][AcceptCalled =>
            IF core.state = "Committed" /\ now >= core.commitTime + MinimumDelay
            THEN calls'[Len(calls')].ok /\ core'.state = "Accepted"
            ELSE ~calls'[Len(calls')].ok /\ core' = core]_vars

\* an accept() one time unit early failed and the retry at commitTime +
\* minimumDelay succeeded
AcceptGatedByDelayWitness ==
    \E i, j \in 1..Len(calls) :
        /\ i < j
        /\ calls[i].op = "accept"
        /\ ~calls[i].ok
        /\ calls[i].time = core.commitTime + MinimumDelay - 1
        /\ calls[j].op = "accept"
        /\ calls[j].ok
        /\ calls[j].time = core.commitTime + MinimumDelay
        /\ core.state = "Accepted"

SuccessfulAccepts == {i \in 1..Len(calls) : calls[i].op = "accept" /\ calls[i].ok}

(* C6: accept() succeeds at most once; on success the state is Accepted and   *)
(* the owner is the proposed owner; every call after it fails and the storage *)
(* of the handover never changes again.                                       *)
AcceptOnceAndTerminal ==
    /\ [](Cardinality(SuccessfulAccepts) <= 1)
    /\ [](\A i \in SuccessfulAccepts : \A j \in (i + 1)..Len(calls) : ~calls[j].ok)
    /\ [][(AcceptCalled /\ calls'[Len(calls')].ok) =>
            (core'.state = "Accepted" /\ core'.owner = core.pending)]_vars
    /\ [][core.state = "Accepted" => core' = core]_vars

\* after the successful accept() a second accept() and a commit both failed
AcceptOnceAndTerminalWitness ==
    \E i, j, k \in 1..Len(calls) :
        /\ i \in SuccessfulAccepts
        /\ i < j
        /\ i < k
        /\ calls[j].op = "accept"
        /\ ~calls[j].ok
        /\ calls[k].op = "commit"
        /\ ~calls[k].ok
        /\ core.owner = core.pending

(* C7 as stated: no component is created after the first wiring call.         *)
NoCreationAfterWiring == \A i \in WiringIdx, j \in CreateIdx : j < i

(* C7 as amended: when a wiring call is submitted, all 17 planned components  *)
(* have been created, and the only creations after it are those of            *)
(* MultiCollateralHintHelpers and AdminVoting.                                *)
PlannedCreatedBeforeWiring ==
    LET created == CreateIdx
    IN  \A i \in WiringIdx :
            /\ PlanNames \subseteq
                   {txlog[j].name : j \in {c \in created : c < i /\ txlog[c].ok}}
            /\ \A j \in created :
                  j > i => txlog[j].name \in {HelperSpec.name, OwnerSpec.name}

\* AdminVoting was created after both wiring calls
PlannedCreatedBeforeWiringWitness ==
    \E i \in WiringIdx, j \in CreateIdx :
        /\ i < j
        /\ txlog[i].method = "setFeeReceiver"
        /\ txlog[j].name = "AdminVoting"
        /\ txlog[j].ok

(* C8: each wiring call is submitted at most once per (target, method); a     *)
(* failed wiring call is the last transaction main() submits, the handover is *)
(* not started, and every component created before it is still on the ledger. *)
WiringOnceAndFatal ==
    /\ \A i, j \in WiringIdx :
          (txlog[i].method = txlog[j].method /\ txlog[i].addr = txlog[j].addr) => i = j
    /\ \A i \in WiringIdx :
          ~txlog[i].ok =>
              /\ NoMainAfter(i)
              /\ pc = "aborted"
              /\ calls = <<>>
              /\ core.state = "Uncommitted"
              /\ \A j \in CreateIdx :
                    txlog[j].ok =>
                        \E c \in 1..Len(contracts) :
                            /\ contracts[c].addr = txlog[j].addr
                            /\ contracts[c].name = txlog[j].name

\* setFeeReceiver failed after setPriceFeed had succeeded
WiringOnceAndFatalWitness ==
    /\ pc = "aborted"
    /\ Len(txlog) > 1
    /\ IsWiring(txlog[Len(txlog)])
    /\ txlog[Len(txlog)].method = "setFeeReceiver"
    /\ ~txlog[Len(txlog)].ok
    /\ core.priceFeed # NoAddr
    /\ AllPlannedCreated

(* C9: after the three warm-up iterations the latest round id is the round id *)
(* before warm-up plus 3 and the latest price is the configured price.        *)
WarmupAdvancesThreeRounds ==
    iter = WarmupIterations =>
        /\ feed.roundId = startRound + 3
        /\ feed.price = ScalePrice(WarmupPrice)

\* warm-up completed on a feed that started at a round id above zero
WarmupAdvancesThreeRoundsWitness ==
    /\ iter = WarmupIterations
    /\ pc = "deploy_tellor"
    /\ startRound = MaxStartRound
    /\ feed.roundId = MaxStartRound + 3

(* C10: after every completed iteration the previous slot is the round read   *)
(* at its start, the latest round id is the previous one plus 1, the update   *)
(* time is later than the previous one, and two seeded rounds are at least    *)
(* the 10-unit sleep apart.                                                   *)
WarmupRoundsConsistent ==
    iter >= 1 /\ (pc # "aborted" \/ iter = WarmupIterations) =>
        /\ feed.prevPrice = current.answer
        /\ feed.prevRoundId = current.roundId
        /\ feed.prevUpdateTime = current.updatedAt
        /\ feed.roundId = feed.prevRoundId + 1
        /\ feed.updateTime > feed.prevUpdateTime
        /\ iter >= 2 =>
              feed.updateTime - feed.prevUpdateTime >= WarmupSleep

\* warm-up completed with the last two rounds more than the sleep apart
WarmupRoundsConsistentWitness ==
    /\ iter = WarmupIterations
    /\ feed.roundId = startRound + WarmupIterations
    /\ feed.updateTime - feed.prevUpdateTime > WarmupSleep

\* the component called name, as it lives on the ledger
Component(name) == contracts[CHOOSE c \in 1..Len(contracts) : contracts[c].name = name]

\* the value component `name` was constructed with for the variable v
StoredReference(name, v) ==
    LET spec == Plan[PlanStep[name]]
    IN  Component(name).args[CHOOSE a \in 1..Len(spec.args) : spec.args[a] = v]

(* C11: after a full run, PriceFeed and FeeReceiver hold the actual address   *)
(* of PrismaCore, and the price feed and fee receiver wired into PrismaCore   *)
(* are the actual addresses of PriceFeed and FeeReceiver.                     *)
WiredCycleResolves ==
    pc = "done" =>
        /\ StoredReference("PriceFeed", "prisma_core") = ActualAddress("prisma_core")
        /\ StoredReference("FeeReceiver", "prisma_core") = ActualAddress("prisma_core")
        /\ core.priceFeed = ActualAddress("pricefeed")
        /\ core.feeReceiver = ActualAddress("fee_receiver")
        /\ \A w \in WiringIdx : txlog[w].addr = ActualAddress("prisma_core")

\* a full run in which PrismaCore was not created at its predicted address
WiredCycleResolvesWitness ==
    /\ pc = "done"
    /\ ActualAddress("prisma_core") # get_deployment_address(deployer, nonceRead)
    /\ core.priceFeed = ActualAddress("pricefeed")
    /\ StoredReference("FeeReceiver", "prisma_core") = ActualAddress("prisma_core")

\* the pairs (i, j) of plan steps such that the component of step i was
\* constructed with the on-ledger address of the component of step j
References ==
    {p \in (1..Len(Plan)) \X (1..Len(Plan)) :
        \E a \in 1..Len(Plan[p[1]].args) :
            Component(Plan[p[1]].name).args[a] = Component(Plan[p[2]].name).addr}

\* the pairs (i, j) such that the constructor call of step i names the variable
\* of step j
PlanReferences ==
    {p \in (1..Len(Plan)) \X (1..Len(Plan)) :
        \E a \in 1..Len(Plan[p[1]].args) : Plan[p[1]].args[a] = Plan[p[2]].var}

(* C12: full runs from different deployer identities have the same internal   *)
(* address relationships: in every full run, from either identity, component  *)
(* i references component j exactly when the plan's step i names step j, so   *)
(* any two full runs agree on every pair (i, j); and every address of a run   *)
(* carries the identity of its deployer, so the addresses of two runs differ. *)
SameRelationshipsAcrossIdentities ==
    pc = "done" =>
        /\ References = PlanReferences
        /\ \A c \in 1..Len(contracts) : contracts[c].addr[1] = deployer

\* the same, for the runs in which no foreign transaction follows the nonce read
SameRelationshipsWithoutDrift ==
    ForeignSinceRead = {} => SameRelationshipsAcrossIdentities

\* a full run of the second identity with the relationships of the plan
SameRelationshipsWithoutDriftWitness ==
    /\ pc = "done"
    /\ deployer = 2
    /\ ForeignSinceRead = {}
    /\ References = PlanReferences

\* the step is a commit reaching the root component while a proposal is pending
RecommitCalled ==
    /\ core.state = "Committed"
    /\ Len(calls') = Len(calls) + 1
    /\ calls'[Len(calls')].op = "commit"

\* the latest successful commit before call i
LastCommitBefore(i) ==
    CHOOSE j \in 1..(i - 1) :
        /\ calls[j].op = "commit" /\ calls[j].ok
        /\ \A k \in (j + 1)..(i - 1) : ~(calls[k].op = "commit" /\ calls[k].ok)

(* C13: a commit issued while Committed succeeds, replaces the pending owner  *)
(* and sets the commit time to the time of the call; a successful accept()    *)
(* comes no earlier than the latest commit plus minimumDelay and makes the    *)
(* latest proposed owner the owner.                                           *)
RecommitResetsHandover ==
    /\ [][RecommitCalled =>
            /\ calls'[Len(calls')].ok
            /\ core'.pending = calls'[Len(calls')].arg
            /\ core'.commitTime = now
            /\ core'.state = "Committed"
            /\ core'.owner = core.owner]_vars
    /\ [](\A i \in SuccessfulAccepts :
            /\ calls[i].time >= calls[LastCommitBefore(i)].time + MinimumDelay
            /\ core.owner = calls[LastCommitBefore(i)].arg)

\* a second commit proposed another owner; an accept() that came minimumDelay
\* after the first commit failed, and the later accept() made the second
\* proposal the owner
RecommitResetsHandoverWitness ==
    /\ Len(calls) = 4
    /\ calls[1].op = "commit" /\ calls[2].op = "commit"
    /\ calls[1].arg # calls[2].arg
    /\ calls[2].time > calls[1].time
    /\ calls[3].op = "accept" /\ ~calls[3].ok
    /\ calls[3].time >= calls[1].time + MinimumDelay
    /\ calls[4].op = "accept" /\ calls[4].ok
    /\ core.state = "Accepted"
    /\ core.owner = calls[2].arg

\* lines 84-100 have been executed
Predicted == locals["boost"] # NoAddr

\* the transactions main() submitted since it read the nonce, as positions in
\* the deployer's transaction list
MainSinceRead ==
    IF Predicted
    THEN {i \in 1..Len(txlog) : IsMain(txlog[i]) /\ txlog[i].nonce >= nonceRead}
    ELSE {}

\* the k-th transaction (k from 0) main() submits after the nonce read is, for
\* k < 17, the creation of the component predicted with offset k, and no
\* later transaction of main() creates a planned component; the creation is
\* submitted at deployer nonce n0 + k (when undisturbed is FALSE: in every
\* run; when TRUE: if no foreign transaction came between the read and it)
CreationsFollowOffsets(undisturbed) ==
    LET since == MainSinceRead
        drift == ForeignSinceRead
    IN  \A i \in since :
            LET k == Cardinality({j \in since : j < i})
            IN  IF k < Len(Plan)
                THEN /\ IsCreate(txlog[i])
                     /\ txlog[i].name = Plan[k + 1].name
                     /\ txlog[i].pred = get_deployment_address(deployer, nonceRead + k)
                     /\ (undisturbed /\ \E j \in drift : j < i)
                            \/ txlog[i].nonce = nonceRead + k
                ELSE ~(IsCreate(txlog[i]) /\ txlog[i].name \in PlanNames)

(* C14 as stated: the first 17 transactions main() submits after reading the  *)
(* nonce are the 17 planned creations in offset order, nothing of main() in   *)
(* between, and creation k is submitted at deployer nonce n0 + k.             *)
CreationsAtReadNoncePlusOffset == CreationsFollowOffsets(FALSE)

(* C14 as amended: the same order of main()'s transactions, and creation k is *)
(* submitted at deployer nonce n0 + k whenever no foreign transaction of the  *)
(* deployer account was mined between the nonce read and that creation.       *)
CreationsInOffsetOrder == CreationsFollowOffsets(TRUE)

\* all 17 planned creations were submitted back to back from a nonce that a
\* foreign transaction had raised before it was read
CreationsInOffsetOrderWitness ==
    /\ pc = "wire"
    /\ Cardinality(MainSinceRead) = Len(Plan)
    /\ ForeignSinceRead = {}
    /\ Foreign # {}
    /\ nonce = nonceRead + Len(Plan)

\* main()'s handover transactions, as positions in the deployer's transaction list
CommitIdx ==
    {i \in 1..Len(txlog) :
        IsMain(txlog[i]) /\ txlog[i].method = "commitTransferOwnership"}
AcceptIdx ==
    {i \in 1..Len(txlog) :
        IsMain(txlog[i]) /\ txlog[i].method = "acceptTransferOwnership"}

(* C15: an accept() of main() never reaches the root component before         *)
(* commitTime + minimumDelay; and in a successful run the commit is submitted *)
(* once, after every creation and wiring call, the accept follows it at least *)
(* 3 days + 1 later, the state is Accepted with AdminVoting as owner, and the *)
(* accept is the last transaction of the deployer.                            *)
HandoverIsLast ==
    /\ \A i \in 1..Len(calls) :
          calls[i].op = "accept" =>
              calls[i].ok /\ calls[i].time >= core.commitTime + MinimumDelay
    /\ pc = "done" =>
          /\ Len(calls) = 2
          /\ calls[1].op = "commit" /\ calls[1].ok
          /\ calls[1].arg = ActualAddress("owner")
          /\ calls[2].op = "accept" /\ calls[2].ok
          /\ calls[2].time >= calls[1].time + HandoverSleep
          /\ core.state = "Accepted"
          /\ core.owner = ActualAddress("owner")
          /\ Cardinality(CommitIdx) = 1
          /\ AcceptIdx = {Len(txlog)}
          /\ \A c \in CommitIdx :
                /\ txlog[c].ok
                /\ \A i \in CreateIdx \cup WiringIdx : i < c
                /\ \A i \in (c + 1)..Len(txlog) :
                      IsMain(txlog[i]) => i \in AcceptIdx
          /\ txlog[Len(txlog)].ok

\* a successful run in which the clock also moved on its own before the accept
HandoverIsLastWitness ==
    /\ pc = "done"
    /\ core.state = "Accepted"
    /\ core.owner = ActualAddress("owner")
    /\ Len(calls) = 2
    /\ calls[2].time = calls[1].time + HandoverSleep + 1

\* the setter transactions of update_chainlink, as positions in the deployer's
\* transaction list
SetterIdx ==
    {i \in 1..Len(txlog) :
        IsMain(txlog[i]) /\ txlog[i].kind = "call" /\ txlog[i].name = "MockAggregator"}

(* C16: when the creation of PriceFeed is submitted, the three warm-up         *)
(* iterations are complete: all 18 setter transactions succeeded before it    *)
(* and none follows it, the feed holds the third seeded round with a          *)
(* consistent previous slot, and PriceFeed is constructed with the mock       *)
(* aggregator's address.                                                      *)
ConsumerAfterWarmup ==
    LET setters == SetterIdx
    IN  \A i \in CreateIdx :
            txlog[i].name = "PriceFeed" =>
                /\ iter = WarmupIterations
                /\ Cardinality({j \in setters : j < i /\ txlog[j].ok})
                       = WarmupIterations * Len(UcSetters)
                /\ \A j \in setters : j < i /\ txlog[j].ok
                /\ feed.roundId = startRound + WarmupIterations
                /\ feed.prevRoundId = feed.roundId - 1
                /\ feed.price = ScalePrice(WarmupPrice)
                /\ feed.prevPrice = ScalePrice(WarmupPrice)
                /\ txlog[i].ok =>
                      Component("PriceFeed").args[2] = ActualAddress("mock_chainlink")

\* PriceFeed exists, built on a feed that started above round zero
ConsumerAfterWarmupWitness ==
    /\ Created("PriceFeed")
    /\ Component("PriceFeed").args[2] = ActualAddress("mock_chainlink")
    /\ startRound = MaxStartRound
    /\ feed.roundId = MaxStartRound + WarmupIterations

\* a transaction of main() was rejected
MainTxRejected == \E i \in 1..Len(txlog) : IsMain(txlog[i]) /\ ~txlog[i].ok

(* C17: on a ledger whose clock chain.sleep cannot move, every completed      *)
(* warm-up iteration still raises the round id by one, three iterations reach *)
(* the starting round id plus 3, and the update times of two seeded rounds    *)
(* are apart only by the time that passed on its own (not at all if none      *)
(* did); the run stops only on a rejected transaction, so after warm-up the   *)
(* script goes on to the address prediction and the creations.                *)
WarmupWithoutClock ==
    /\ ~clockAdvances
    /\ iter >= 1 /\ (pc # "aborted" \/ iter = WarmupIterations) =>
          /\ feed.roundId = feed.prevRoundId + 1
          /\ feed.roundId = startRound + iter
          /\ iter >= 2 =>
                /\ feed.updateTime - feed.prevUpdateTime >= 0
                /\ feed.updateTime - feed.prevUpdateTime <= ticks
                /\ feed.updateTime - feed.prevUpdateTime < WarmupSleep
    /\ pc = "aborted" => MainTxRejected
    /\ Predicted => iter = WarmupIterations

\* with a clock that never moved during warm-up, the rounds were written
\* with equal update times and all 17 planned components were created
WarmupWithoutClockWitness ==
    /\ ~clockAdvances
    /\ iter = WarmupIterations
    /\ feed.roundId = startRound + WarmupIterations
    /\ feed.updateTime = feed.prevUpdateTime
    /\ Predicted
    /\ AllPlannedCreated

\* the transactions main() submits before line 82: the creations of the two
\* mocks and the setter calls of warm-up
BeforeTableIdx ==
    {i \in 1..Len(txlog) :
        IsMain(txlog[i]) /\ txlog[i].name \in {"MockAggregator", "MockTellor"}}

\* once the table is computed: every transaction main() submitted before it
\* took a counter value below the nonce read, and the first planned creation
\* is submitted at the nonce read (when undisturbed is FALSE: in every run;
\* when TRUE: if no foreign transaction came between the read and it)
EarlierTxsBelowReadNonce(undisturbed) ==
    Predicted =>
        LET drift == ForeignSinceRead
        IN  /\ Cardinality(BeforeTableIdx) = 2 + WarmupIterations * Len(UcSetters)
            /\ \A i \in BeforeTableIdx : txlog[i].nonce < nonceRead
            /\ \A i \in CreateIdx :
                  txlog[i].name = Plan[1].name =>
                      \/ undisturbed /\ \E j \in drift : j < i
                      \/ txlog[i].nonce = nonceRead

(* C18 as stated: whatever was sent before the table was computed, the nonce  *)
(* read is the nonce consumed by the first planned creation.                  *)
ReadNonceIsFirstCreationNonce == EarlierTxsBelowReadNonce(FALSE)

(* C18 as amended: the 20 transactions of main() before line 82, and any      *)
(* foreign transaction before it, lie below the nonce read, and the nonce     *)
(* read is the nonce consumed by the first planned creation whenever no       *)
(* foreign transaction was mined between the read and that creation.          *)
ReadNonceAfterEarlierTxs == EarlierTxsBelowReadNonce(TRUE)

\* PrismaCore was created at the nonce read, 21 transactions (one of them
\* foreign) above a start nonce other than zero
ReadNonceAfterEarlierTxsWitness ==
    /\ Created("PrismaCore")
    /\ ActualAddress("prisma_core") = CreateAddress(deployer, nonceRead)
    /\ txlog[1].nonce = MaxStartNonce
    /\ nonceRead = MaxStartNonce + Cardinality(BeforeTableIdx) + 1
    /\ \E j \in Foreign : txlog[j].nonce < nonceRead

\* the step submits a call of main() on the root component
WiringSubmitted ==
    Len(txlog') = Len(txlog) + 1 /\ IsWiring(txlog'[Len(txlog')])
CommitSubmitted ==
    /\ Len(txlog') = Len(txlog) + 1
    /\ IsMain(txlog'[Len(txlog')])
    /\ txlog'[Len(txlog')].method = "commitTransferOwnership"

(* C19: main() submits each wiring call while the handover is Uncommitted and *)
(* its commit while the handover is Uncommitted or Committed, in both cases   *)
(* with the deployer as owner of the root component; no wiring call follows   *)
(* the commit, and once the state is Accepted main() has finished.            *)
AdminCallsWhileDeployerOwns ==
    /\ [][WiringSubmitted =>
            core.state = "Uncommitted" /\ core.owner = AccountAddress(deployer)]_vars
    /\ [][CommitSubmitted =>
            /\ core.state \in {"Uncommitted", "Committed"}
            /\ core.owner = AccountAddress(deployer)]_vars
    /\ [](\A c \in CommitIdx, w \in WiringIdx : w < c)
    /\ [](core.state = "Accepted" => pc = "done")
    /\ [][core.state = "Accepted" => txlog' = txlog]_vars

\* both wiring calls and the commit went through while the deployer owned the
\* root component, and the accept is still to come
AdminCallsWhileDeployerOwnsWitness ==
    /\ pc = "accept"
    /\ core.state = "Committed"
    /\ core.owner = AccountAddress(deployer)
    /\ core.priceFeed # NoAddr
    /\ core.feeReceiver # NoAddr
    /\ Cardinality(WiringIdx) = Len(Wiring)
    /\ Cardinality(CommitIdx) = 1

====
